---- MODULE Spec2Model ----
(***************************************************************************)
(* The queue monitor service (backend/src/services/queueMonitorService.js) *)
(* as a state machine: the fields of one QueueMonitorService object, the   *)
(* broker connections it opened, the interval timers and timeouts it       *)
(* armed, and the position of every start(), stop() and checkQueueDepths() *)
(* call that is suspended at an await.  One action is one run of the       *)
(* event loop: a callback from its first statement to its next await that  *)
(* waits on the outside world (socket, child process, timer).              *)
(***************************************************************************)
EXTENDS Integers, Sequences, FiniteSets, Bags, TLC

VARIABLES
  options,            \* the options the constructor was called with
  cfg,                \* scaleUpThreshold, scaleDownThreshold, maxWorkers, minWorkers, dockerMode
  declared,           \* the watched queues (by position in this.queues) that exist at the broker
  isRunning,          \* this.isRunning
  checkTimer,         \* this.checkTimer: 0 is null, else the handle of an interval timer
  connection,         \* this.connection: 0 is null, else a connection id
  channel,            \* this.channel: 0 is null, else the id of the connection it was opened on
  currentWorkerCount, \* this.currentWorkerCount
  conns,              \* every connection amqp.connect returned: status, 'close' listeners, pending close()
  timers,             \* handles of the interval timers that are armed
  startTimeouts,      \* delays of the pending setTimeout(() => this.start(), delay)
  starts,             \* bag of start() calls suspended at an await
  ticks,              \* bag of checkQueueDepths() calls suspended at an await
  workers,            \* worker-service containers docker-compose runs
  calls,              \* start()/stop() calls made by the owner of the object
  failures,           \* start() attempts that failed so far
  stopFound,          \* what the owner's last stop() found: "running", "starting", "stopped"
  stopped,            \* a stop() has completed since the owner's last start()
  lastDecision        \* the decision the last step took, or the error it caught

vars == << options, cfg, declared, isRunning, checkTimer, connection, channel, currentWorkerCount,
           conns, timers, startTimeouts, starts, ticks, workers,
           calls, failures, stopFound, stopped, lastDecision >>

----------------------------------------------------------------------------
(* Bounds of the model *)

MaxConns == 2         \* connections the broker accepts
MaxTicks == 2         \* checkQueueDepths() calls in flight
MaxStarts == 2        \* start() calls in flight or scheduled
MaxCalls == 2         \* start()/stop() calls of the owner
MaxFailures == 2      \* failed start() attempts that are counted
MaxWideDepth == 13    \* messageCount of one queue, where the decision is examined
MaxLiveTicks == 1     \* checkQueueDepths() calls in flight, where the retries are examined
MaxStopCalls == 3     \* start()/stop() calls of the owner, where stop() is examined
MaxGuardTicks == 1    \* checkQueueDepths() calls in flight, where the guard of a tick is examined
MaxSteadyDepth == 3   \* messageCount of one queue, where the long run is examined

(* Program constants *)

RetryDelay == 5000
NumQueues == 2
DefaultScaleUpThreshold == 10
DefaultScaleDownThreshold == 2
DefaultMaxWorkers == 5
DefaultMinWorkers == 1

----------------------------------------------------------------------------
(* Helpers *)

Min(a, b) == IF a < b THEN a ELSE b

\* a rounding down where the code rounds up
CeilFloor(a, b) == a \div b

\* Math.ceil(a / b) for b > 0
Ceil(a, b) == -((-a) \div b)

\* o.k || d : an absent option and the number 0 are both falsy
OrDefault(o, k, d) ==
  IF k \in DOMAIN o /\ o[k] # 0 THEN o[k] ELSE d

\* the fields the constructor derives from its options and from DOCKER_SCALE
Constructor(o, dockerScale) ==
  [ scaleUpThreshold   |-> OrDefault(o, "scaleUpThreshold", DefaultScaleUpThreshold),
    scaleDownThreshold |-> OrDefault(o, "scaleDownThreshold", DefaultScaleDownThreshold),
    maxWorkers         |-> OrDefault(o, "maxWorkers", DefaultMaxWorkers),
    minWorkers         |-> OrDefault(o, "minWorkers", DefaultMinWorkers),
    dockerMode         |-> dockerScale ]

NoDecision == [kind |-> "none", amount |-> 0, total |-> 0, count |-> 0]

\* what a tick that took no decision leaves for examination: the error its
\* catch block logged or the return of its guard, the backlog summed before a
\* read failed, and the worker count it ended with
Caught(kind, total, count) == [kind |-> kind, amount |-> 0, total |-> total, count |-> count]

NewStart == [pc |-> "connect", conn |-> 0, target |-> 0]

Replace(bag, old, new) == (bag (-) SetToBag({old})) (+) SetToBag({new})
Remove(bag, old) == bag (-) SetToBag({old})

\* n copies of the reconnect delay, one per 'close' listener that ran
Delays(n) == [i \in 1..n |-> RetryDelay]

----------------------------------------------------------------------------
(* Construction *)

InitWith(optionSet, dockerSet, workerSet) ==
  /\ options \in optionSet
  /\ \E d \in dockerSet : cfg = Constructor(options, d)
  /\ declared = {}
  /\ isRunning = FALSE
  /\ checkTimer = 0
  /\ connection = 0
  /\ channel = 0
  /\ currentWorkerCount = cfg.minWorkers
  /\ conns = << >>
  /\ timers = {}
  /\ startTimeouts = << >>
  /\ starts = EmptyBag
  /\ ticks = EmptyBag
  /\ workers \in (IF cfg.dockerMode THEN workerSet ELSE {0})
  /\ calls = 0
  /\ failures = 0
  /\ stopFound = "none"
  /\ stopped = FALSE
  /\ lastDecision = NoDecision

LifecycleOptions ==
  { [scaleUpThreshold |-> 3, scaleDownThreshold |-> 2, maxWorkers |-> 2, minWorkers |-> 1] }

\* messageCounts that put the backlog of two queues below, on, between and
\* above the thresholds of LifecycleOptions
LifecycleDepths == {0, 2}

\* worker containers found running when the service is constructed: none, the
\* minimum, the maximum and one more than the maximum of LifecycleOptions
LifecycleWorkers == {0, 1, 2, 3}

Init == InitWith(LifecycleOptions, BOOLEAN, LifecycleWorkers)

----------------------------------------------------------------------------
(* start() *)

\* start(), from its first line to the await of amqp.connect
StartBody ==
  IF isRunning
    THEN UNCHANGED starts
    ELSE starts' = starts (+) SetToBag({NewStart})

\* the owner of the object calls start()
CallStart ==
  /\ calls < MaxCalls
  /\ isRunning \/ BagCardinality(starts) + Len(startTimeouts) < MaxStarts
  /\ calls' = calls + 1
  /\ stopFound' = "none"
  /\ stopped' = FALSE
  /\ StartBody
  /\ UNCHANGED << cfg, options, declared, isRunning, checkTimer, connection, channel, currentWorkerCount,
                  conns, timers, startTimeouts, ticks, workers, failures >>
  /\ lastDecision' = NoDecision

\* a pending setTimeout(() => this.start(), 5000) expires
TimeoutFire ==
  /\ startTimeouts # << >>
  /\ startTimeouts' = Tail(startTimeouts)
  /\ StartBody
  /\ UNCHANGED << cfg, options, declared, isRunning, checkTimer, connection, channel, currentWorkerCount,
                  conns, timers, ticks, workers, calls, failures, stopFound, stopped >>
  /\ lastDecision' = NoDecision

\* amqp.connect resolves: this.connection is set and createChannel is awaited
ConnectOk ==
  \E s \in BagToSet(starts) :
    /\ s.pc = "connect"
    /\ Len(conns) < MaxConns
    /\ conns' = Append(conns, [status |-> "open", handlers |-> 0, closer |-> "none"])
    /\ connection' = Len(conns) + 1
    /\ starts' = Replace(starts, s, [s EXCEPT !.pc = "channel", !.conn = Len(conns) + 1])
    /\ UNCHANGED << cfg, options, declared, isRunning, checkTimer, channel, currentWorkerCount, timers,
                    startTimeouts, ticks, workers, calls, failures, stopFound, stopped >>
    /\ lastDecision' = NoDecision

\* a catch block that gives up after the first failed attempt
CatchBlockCapped(s) ==
  /\ isRunning' = FALSE
  /\ startTimeouts' = IF failures < 1 THEN Append(startTimeouts, RetryDelay) ELSE startTimeouts
  /\ starts' = Remove(starts, s)
  /\ UNCHANGED conns

\* the catch block of start(): close this.connection if there is one, then
\* isRunning = false and the retry timeout.  A close() of a connection that is
\* open waits for the broker (CloseDone resumes the block); a close() of a
\* connection that is closing or closed rejects at once.
CatchBlock(s) ==
  IF connection # 0 /\ conns[connection].status = "open"
    THEN /\ conns' = [conns EXCEPT ![connection].status = "closing",
                                   ![connection].closer = "catch"]
         /\ starts' = Remove(starts, s)
         /\ UNCHANGED << isRunning, startTimeouts >>
    ELSE /\ isRunning' = FALSE
         /\ startTimeouts' = Append(startTimeouts, RetryDelay)
         /\ starts' = Remove(starts, s)
         /\ UNCHANGED conns

\* the count of failed attempts, kept where the retries are examined: there the
\* broker refuses MaxFailures attempts at most, and refuses none once it has
\* handed out its last connection (a createChannel on a lost connection must
\* fail all the same)
CountFailure(counted, forced) ==
  IF counted
    THEN /\ forced \/ (failures < MaxFailures /\ Len(conns) < MaxConns)
         /\ failures' = Min(failures + 1, MaxFailures)
    ELSE UNCHANGED failures

\* amqp.connect rejects
ConnectFail(counted) ==
  \E s \in BagToSet(starts) :
    /\ s.pc = "connect"
    /\ CountFailure(counted, FALSE)
    /\ CatchBlock(s)
    /\ UNCHANGED << cfg, options, declared, checkTimer, connection, channel, currentWorkerCount, timers,
                    ticks, workers, calls, stopFound, stopped >>
    /\ lastDecision' = NoDecision

\* createChannel rejects (it must when the connection is no longer open)
ChannelFail(counted) ==
  \E s \in BagToSet(starts) :
    /\ s.pc = "channel"
    /\ CountFailure(counted, conns[s.conn].status # "open")
    /\ CatchBlock(s)
    /\ UNCHANGED << cfg, options, declared, checkTimer, connection, channel, currentWorkerCount, timers,
                    ticks, workers, calls, stopFound, stopped >>
    /\ lastDecision' = NoDecision

\* this.connection.on('close', ...): a listener on a connection that is already
\* closed never runs, so it is not counted
WithHandler(cs) ==
  IF cs[connection].status = "closed"
    THEN cs
    ELSE [cs EXCEPT ![connection].handlers = @ + 1]

\* createChannel resolves: the timer is armed, isRunning is set and
\* ensureMinimumWorkers runs.  Without Docker ensureMinimumWorkers and scaleUp
\* await nothing outside the process, so start() runs on to the registration
\* of the 'close' listener; with Docker it waits for docker-compose ps.
ChannelOk ==
  \E s \in BagToSet(starts) :
    /\ s.pc = "channel"
    /\ conns[s.conn].status = "open"
    /\ channel' = s.conn
    /\ checkTimer' = s.conn
    /\ timers' = timers \cup {s.conn}
    /\ isRunning' = TRUE
    /\ IF cfg.dockerMode
         THEN /\ starts' = Replace(starts, s, [s EXCEPT !.pc = "ps"])
              /\ UNCHANGED << currentWorkerCount, conns >>
         ELSE /\ currentWorkerCount' =
                   IF currentWorkerCount < cfg.minWorkers
                     THEN currentWorkerCount + (cfg.minWorkers - currentWorkerCount)
                     ELSE currentWorkerCount
              /\ conns' = WithHandler(conns)
              /\ starts' = Remove(starts, s)
    /\ UNCHANGED << cfg, options, declared, connection, startTimeouts, ticks, workers, calls, failures,
                    stopFound, stopped >>
    /\ lastDecision' = NoDecision

\* docker-compose ps resolves: the count it reports becomes currentWorkerCount,
\* and a count below minWorkers starts a scale-up to minWorkers
PsDone ==
  \E s \in BagToSet(starts) :
    /\ s.pc = "ps"
    /\ currentWorkerCount' = workers
    /\ IF workers < cfg.minWorkers
         THEN /\ starts' = Replace(starts, s,
                     [s EXCEPT !.pc = "scale", !.target = workers + (cfg.minWorkers - workers)])
              /\ UNCHANGED conns
         ELSE /\ starts' = Remove(starts, s)
              /\ conns' = WithHandler(conns)
    /\ UNCHANGED << cfg, options, declared, isRunning, checkTimer, connection, channel, timers, startTimeouts,
                    ticks, workers, calls, failures, stopFound, stopped >>
    /\ lastDecision' = NoDecision

\* docker-compose ps rejects: ensureMinimumWorkers logs it and start() goes on
PsFail ==
  \E s \in BagToSet(starts) :
    /\ s.pc = "ps"
    /\ starts' = Remove(starts, s)
    /\ conns' = WithHandler(conns)
    /\ UNCHANGED << cfg, options, declared, isRunning, checkTimer, connection, channel, currentWorkerCount,
                    timers, startTimeouts, ticks, workers, calls, failures,
                    stopFound, stopped >>
    /\ lastDecision' = NoDecision

\* the scale command of ensureMinimumWorkers, a process of its own, brings
\* the worker containers to its target; its promise has not resolved yet
StartScaleRun ==
  \E s \in BagToSet(starts) :
    /\ s.pc = "scale"
    /\ workers' = s.target
    /\ starts' = Replace(starts, s, [s EXCEPT !.pc = "scaled"])
    /\ UNCHANGED << cfg, options, declared, isRunning, checkTimer, connection, channel,
                    currentWorkerCount, conns, timers, startTimeouts, ticks, calls,
                    failures, stopFound, stopped >>
    /\ lastDecision' = NoDecision

\* the scale command of ensureMinimumWorkers resolves
StartScaleOk ==
  \E s \in BagToSet(starts) :
    /\ s.pc = "scaled"
    /\ currentWorkerCount' = s.target
    /\ starts' = Remove(starts, s)
    /\ conns' = WithHandler(conns)
    /\ UNCHANGED << cfg, options, declared, isRunning, checkTimer, connection, channel, timers, startTimeouts,
                    ticks, workers, calls, failures, stopFound, stopped >>
    /\ lastDecision' = NoDecision

\* the scale command of ensureMinimumWorkers rejects: scaleUp logs it
StartScaleFail ==
  \E s \in BagToSet(starts) :
    /\ s.pc = "scale"
    /\ starts' = Remove(starts, s)
    /\ conns' = WithHandler(conns)
    /\ UNCHANGED << cfg, options, declared, isRunning, checkTimer, connection, channel, currentWorkerCount,
                    timers, startTimeouts, ticks, workers, calls, failures,
                    stopFound, stopped >>
    /\ lastDecision' = Caught("scalefailed", 0, currentWorkerCount')

----------------------------------------------------------------------------
(* checkQueueDepths(), scaleUp(), scaleDown() *)

NewTick == [pc |-> "read", idx |-> 1, total |-> 0, chan |-> channel, target |-> 0]

\* a checkQueueDepths() without the guard of line 118
TimerFireUnguarded(inFlight) ==
  \E t \in timers :
    /\ BagCardinality(ticks) < inFlight
    /\ ticks' = ticks (+) SetToBag({NewTick})
    /\ UNCHANGED << cfg, options, declared, isRunning, checkTimer, connection, channel, currentWorkerCount,
                    conns, timers, startTimeouts, starts, workers, calls, failures,
                    stopFound, stopped >>
    /\ lastDecision' = NoDecision

\* an armed interval timer fires and calls checkQueueDepths(): it returns at
\* once unless the service is running with a channel; otherwise the first
\* assertQueue is awaited
TimerFire(inFlight) ==
  \E t \in timers :
    /\ IF ~isRunning \/ channel = 0
         THEN /\ UNCHANGED ticks
              /\ lastDecision' = Caught("skipped", 0, currentWorkerCount)
         ELSE /\ BagCardinality(ticks) < inFlight
              /\ ticks' = ticks (+) SetToBag({NewTick})
              /\ lastDecision' = NoDecision
    /\ UNCHANGED << cfg, options, declared, isRunning, checkTimer, connection, channel, currentWorkerCount,
                    conns, timers, startTimeouts, starts, workers, calls, failures,
                    stopFound, stopped >>

\* a decision whose scale-down rule compares the wrong way round
DecisionDownAbove(total) ==
  IF total > cfg.scaleUpThreshold /\ currentWorkerCount < cfg.maxWorkers
    THEN [kind |-> "up",
          amount |-> Min(cfg.maxWorkers - currentWorkerCount,
                         Ceil(total, cfg.scaleUpThreshold)),
          total |-> total, count |-> currentWorkerCount]
    ELSE IF total > cfg.scaleDownThreshold /\ currentWorkerCount > cfg.minWorkers
      THEN [kind |-> "down",
            amount |-> 1,
            total |-> total, count |-> currentWorkerCount]
      ELSE [kind |-> "hold", amount |-> 0, total |-> total, count |-> currentWorkerCount]

\* a decision whose scale-down removes every worker above the minimum
DecisionDownAll(total) ==
  IF total > cfg.scaleUpThreshold /\ currentWorkerCount < cfg.maxWorkers
    THEN [kind |-> "up",
          amount |-> Min(cfg.maxWorkers - currentWorkerCount,
                         Ceil(total, cfg.scaleUpThreshold)),
          total |-> total, count |-> currentWorkerCount]
    ELSE IF total < cfg.scaleDownThreshold /\ currentWorkerCount > cfg.minWorkers
      THEN [kind |-> "down",
            amount |-> currentWorkerCount - cfg.minWorkers,
            total |-> total, count |-> currentWorkerCount]
      ELSE [kind |-> "hold", amount |-> 0, total |-> total, count |-> currentWorkerCount]

\* a decision that scales up from the threshold on, not above it
DecisionNonStrict(total) ==
  IF total >= cfg.scaleUpThreshold /\ currentWorkerCount < cfg.maxWorkers
    THEN [kind |-> "up",
          amount |-> Min(cfg.maxWorkers - currentWorkerCount,
                         Ceil(total, cfg.scaleUpThreshold)),
          total |-> total, count |-> currentWorkerCount]
    ELSE IF total < cfg.scaleDownThreshold /\ currentWorkerCount > cfg.minWorkers
      THEN [kind |-> "down",
            amount |-> Min(currentWorkerCount - cfg.minWorkers,
                           Ceil(cfg.scaleDownThreshold - total, cfg.scaleDownThreshold)),
            total |-> total, count |-> currentWorkerCount]
      ELSE [kind |-> "hold", amount |-> 0, total |-> total, count |-> currentWorkerCount]

\* a decision that tries the scale-down rule first
DecisionDownFirst(total) ==
  IF total < cfg.scaleDownThreshold /\ currentWorkerCount > cfg.minWorkers
    THEN [kind |-> "down",
          amount |-> Min(currentWorkerCount - cfg.minWorkers,
                         Ceil(cfg.scaleDownThreshold - total, cfg.scaleDownThreshold)),
          total |-> total, count |-> currentWorkerCount]
    ELSE IF total > cfg.scaleUpThreshold /\ currentWorkerCount < cfg.maxWorkers
      THEN [kind |-> "up",
            amount |-> Min(cfg.maxWorkers - currentWorkerCount,
                           Ceil(total, cfg.scaleUpThreshold)),
            total |-> total, count |-> currentWorkerCount]
      ELSE [kind |-> "hold", amount |-> 0, total |-> total, count |-> currentWorkerCount]

\* a decision whose scale-down amount leaves out the division by the threshold
DecisionNoDivide(total) ==
  IF total > cfg.scaleUpThreshold /\ currentWorkerCount < cfg.maxWorkers
    THEN [kind |-> "up",
          amount |-> Min(cfg.maxWorkers - currentWorkerCount,
                         Ceil(total, cfg.scaleUpThreshold)),
          total |-> total, count |-> currentWorkerCount]
    ELSE IF total < cfg.scaleDownThreshold /\ currentWorkerCount > cfg.minWorkers
      THEN [kind |-> "down",
            amount |-> Min(currentWorkerCount - cfg.minWorkers,
                           cfg.scaleDownThreshold - total),
            total |-> total, count |-> currentWorkerCount]
      ELSE [kind |-> "hold", amount |-> 0, total |-> total, count |-> currentWorkerCount]

\* the decision of lines 135-147 for a backlog of total messages
Decision(total) ==
  IF total > cfg.scaleUpThreshold /\ currentWorkerCount < cfg.maxWorkers
    THEN [kind |-> "up",
          amount |-> Min(cfg.maxWorkers - currentWorkerCount,
                         Ceil(total, cfg.scaleUpThreshold)),
          total |-> total, count |-> currentWorkerCount]
    ELSE IF total < cfg.scaleDownThreshold /\ currentWorkerCount > cfg.minWorkers
      THEN [kind |-> "down",
            amount |-> Min(currentWorkerCount - cfg.minWorkers,
                           Ceil(cfg.scaleDownThreshold - total, cfg.scaleDownThreshold)),
            total |-> total, count |-> currentWorkerCount]
      ELSE [kind |-> "hold", amount |-> 0, total |-> total, count |-> currentWorkerCount]

\* the worker count scaleUp(count) aims at
ScaleUpTarget(count) == currentWorkerCount + count

\* the worker count scaleDown(count) aims at: it returns early at the minimum
\* and never removes more than the workers above the minimum
ScaleDownTarget(count) ==
  IF currentWorkerCount <= cfg.minWorkers
    THEN currentWorkerCount
    ELSE currentWorkerCount - Min(count, currentWorkerCount - cfg.minWorkers)

\* a scaleUp/scaleDown that without Docker only logs and leaves the count alone
ScaleLogsOnly(k, d) ==
  LET target == IF d.kind = "up" THEN ScaleUpTarget(d.amount) ELSE ScaleDownTarget(d.amount)
  IN  IF d.kind = "down" /\ currentWorkerCount <= cfg.minWorkers
        THEN /\ ticks' = Remove(ticks, k)
             /\ UNCHANGED currentWorkerCount
        ELSE IF cfg.dockerMode
          THEN /\ ticks' = Replace(ticks, k, [k EXCEPT !.pc = "exec", !.target = target])
               /\ UNCHANGED currentWorkerCount
          ELSE /\ ticks' = Remove(ticks, k)
               /\ UNCHANGED currentWorkerCount

\* a scaleUp/scaleDown that runs the scale command in either mode
ScaleAlwaysExec(k, d) ==
  LET target == IF d.kind = "up" THEN ScaleUpTarget(d.amount) ELSE ScaleDownTarget(d.amount)
  IN  IF d.kind = "down" /\ currentWorkerCount <= cfg.minWorkers
        THEN /\ ticks' = Remove(ticks, k)
             /\ UNCHANGED currentWorkerCount
        ELSE /\ ticks' = Replace(ticks, k, [k EXCEPT !.pc = "exec", !.target = target])
             /\ UNCHANGED currentWorkerCount

\* scaleUp or scaleDown called by the tick k with decision d: without Docker the
\* count changes at once; with Docker the scale command is awaited first
Scale(k, d) ==
  LET target == IF d.kind = "up" THEN ScaleUpTarget(d.amount) ELSE ScaleDownTarget(d.amount)
  IN  IF d.kind = "down" /\ currentWorkerCount <= cfg.minWorkers
        THEN /\ ticks' = Remove(ticks, k)
             /\ UNCHANGED currentWorkerCount
        ELSE IF cfg.dockerMode
          THEN /\ ticks' = Replace(ticks, k, [k EXCEPT !.pc = "exec", !.target = target])
               /\ UNCHANGED currentWorkerCount
          ELSE /\ ticks' = Remove(ticks, k)
               /\ currentWorkerCount' = target

\* a tick that keeps the last messageCount read instead of adding it up
TickReadOkLast(depths, observed) ==
  \E k \in BagToSet(ticks), d \in depths :
    /\ k.pc = "read"
    /\ conns[k.chan].status = "open"
    /\ declared' = declared \cup {k.idx}
    /\ IF k.idx < NumQueues
         THEN /\ ticks' = Replace(ticks, k,
                     [k EXCEPT !.idx = @ + 1, !.total = d, !.chan = channel])
              /\ lastDecision' = NoDecision
              /\ UNCHANGED currentWorkerCount
         ELSE /\ lastDecision' = IF observed THEN Decision(d) ELSE NoDecision
              /\ IF Decision(d).kind = "hold"
                   THEN /\ ticks' = Remove(ticks, k)
                        /\ UNCHANGED currentWorkerCount
                   ELSE Scale(k, Decision(d))
    /\ UNCHANGED << cfg, options, isRunning, checkTimer, connection, channel, conns, timers,
                    startTimeouts, starts, workers, calls, failures, stopFound, stopped >>

\* an assertQueue resolves with messageCount d: the queue exists at the broker
\* from now on; the next queue is asked on this.channel, or, after the last
\* queue, the decision is taken and applied
TickReadOk(depths, observed) ==
  \E k \in BagToSet(ticks), d \in depths :
    /\ k.pc = "read"
    /\ conns[k.chan].status = "open"
    /\ declared' = declared \cup {k.idx}
    /\ IF k.idx < NumQueues
         THEN /\ ticks' = Replace(ticks, k,
                     [k EXCEPT !.idx = @ + 1, !.total = @ + d, !.chan = channel])
              /\ lastDecision' = NoDecision
              /\ UNCHANGED currentWorkerCount
         ELSE /\ lastDecision' = IF observed THEN Decision(k.total + d) ELSE NoDecision
              /\ IF Decision(k.total + d).kind = "hold"
                   THEN /\ ticks' = Remove(ticks, k)
                        /\ UNCHANGED currentWorkerCount
                   ELSE Scale(k, Decision(k.total + d))
    /\ UNCHANGED << cfg, options, isRunning, checkTimer, connection, channel, conns, timers,
                    startTimeouts, starts, workers, calls, failures, stopFound, stopped >>

\* a catch block that goes on to decide on the backlog summed so far
TickReadFailDecides ==
  \E k \in BagToSet(ticks) :
    /\ k.pc = "read"
    /\ IF Decision(k.total).kind = "hold"
         THEN /\ ticks' = Remove(ticks, k)
              /\ UNCHANGED currentWorkerCount
         ELSE Scale(k, Decision(k.total))
    /\ UNCHANGED << cfg, options, declared, isRunning, checkTimer, connection, channel,
                    conns, timers, startTimeouts, starts, workers, calls, failures,
                    stopFound, stopped >>
    /\ lastDecision' = Caught("readfailed", k.total, currentWorkerCount')

\* an assertQueue rejects: the tick logs the error and ends
TickReadFail ==
  \E k \in BagToSet(ticks) :
    /\ k.pc = "read"
    /\ ticks' = Remove(ticks, k)
    /\ UNCHANGED << cfg, options, declared, isRunning, checkTimer, connection, channel, currentWorkerCount,
                    conns, timers, startTimeouts, starts, workers, calls, failures,
                    stopFound, stopped >>
    /\ lastDecision' = Caught("readfailed", k.total, currentWorkerCount')

\* the scale command of a tick, a process of its own, brings the worker
\* containers to its target; its promise has not resolved yet
TickExecRun ==
  \E k \in BagToSet(ticks) :
    /\ k.pc = "exec"
    /\ workers' = k.target
    /\ ticks' = Replace(ticks, k, [k EXCEPT !.pc = "ran"])
    /\ UNCHANGED << cfg, options, declared, isRunning, checkTimer, connection, channel,
                    currentWorkerCount, conns, timers, startTimeouts, starts, calls,
                    failures, stopFound, stopped >>
    /\ lastDecision' = NoDecision

\* the scale command of a tick resolves
TickExecOk ==
  \E k \in BagToSet(ticks) :
    /\ k.pc = "ran"
    /\ currentWorkerCount' = k.target
    /\ ticks' = Remove(ticks, k)
    /\ UNCHANGED << cfg, options, declared, isRunning, checkTimer, connection, channel, conns, timers,
                    startTimeouts, starts, workers, calls, failures, stopFound, stopped >>
    /\ lastDecision' = NoDecision

\* a scaleUp/scaleDown that records the new count before the command is done
TickExecFailCommits ==
  \E k \in BagToSet(ticks) :
    /\ k.pc = "exec"
    /\ currentWorkerCount' = k.target
    /\ ticks' = Remove(ticks, k)
    /\ UNCHANGED << cfg, options, declared, isRunning, checkTimer, connection, channel,
                    conns, timers, startTimeouts, starts, workers, calls, failures,
                    stopFound, stopped >>
    /\ lastDecision' = Caught("scalefailed", 0, currentWorkerCount')

\* the scale command of a tick rejects: scaleUp/scaleDown log the error
TickExecFail ==
  \E k \in BagToSet(ticks) :
    /\ k.pc = "exec"
    /\ ticks' = Remove(ticks, k)
    /\ UNCHANGED << cfg, options, declared, isRunning, checkTimer, connection, channel, currentWorkerCount,
                    conns, timers, startTimeouts, starts, workers, calls, failures,
                    stopFound, stopped >>
    /\ lastDecision' = Caught("scalefailed", 0, currentWorkerCount')

----------------------------------------------------------------------------
(* Connection events and stop() *)

\* the 'close' listeners of connection c run: each clears this.checkTimer,
\* sets isRunning = false and arms a timeout that calls start()
AfterListeners(c) ==
  [ timers        |-> IF conns[c].handlers > 0 THEN timers \ {checkTimer} ELSE timers,
    isRunning     |-> IF conns[c].handlers > 0 THEN FALSE ELSE isRunning,
    startTimeouts |-> startTimeouts \o Delays(conns[c].handlers) ]

\* the broker or the network closes an open connection: 'close' is emitted
ConnLost ==
  \E c \in 1..Len(conns) :
    /\ conns[c].status = "open"
    /\ conns' = [conns EXCEPT ![c].status = "closed", ![c].handlers = 0]
    /\ timers' = AfterListeners(c).timers
    /\ isRunning' = AfterListeners(c).isRunning
    /\ startTimeouts' = AfterListeners(c).startTimeouts
    /\ UNCHANGED << cfg, options, declared, checkTimer, connection, channel, currentWorkerCount, starts,
                    ticks, workers, calls, failures, stopFound, stopped >>
    /\ lastDecision' = NoDecision

\* what a stop() finds: a service that is running, one with a start() under
\* way or scheduled (Starting, Reconnecting), or a stopped one
Found ==
  IF starts # EmptyBag \/ startTimeouts # << >>
       \/ \E c \in 1..Len(conns) : conns[c].closer = "catch"
    THEN "starting"
    ELSE IF isRunning THEN "running" ELSE "stopped"

\* a close() a stop() or a catch block waits for completes: 'close' is emitted,
\* the listeners run, then the caller of close() resumes: stop() sets
\* isRunning = false; the catch block does so too and arms the retry timeout
CloseDone ==
  \E c \in 1..Len(conns) :
    /\ conns[c].status = "closing"
    /\ conns' = [conns EXCEPT ![c].status = "closed", ![c].handlers = 0,
                              ![c].closer = "none"]
    /\ timers' = AfterListeners(c).timers
    /\ isRunning' = FALSE
    /\ IF conns[c].closer = "catch"
         THEN /\ startTimeouts' = Append(AfterListeners(c).startTimeouts, RetryDelay)
              /\ UNCHANGED stopped
         ELSE /\ startTimeouts' = AfterListeners(c).startTimeouts
              /\ stopped' = (stopFound # "none")
    /\ UNCHANGED << cfg, options, declared, checkTimer, connection, channel, currentWorkerCount, starts,
                    ticks, workers, calls, failures, stopFound >>
    /\ lastDecision' = NoDecision

\* a stop() whose close() is outside any try/catch: the error leaves stop()
OwnerStopNoCatch(limit) ==
  /\ calls < limit
  /\ calls' = calls + 1
  /\ stopFound' = Found
  /\ IF ~isRunning
       THEN /\ stopped' = TRUE
            /\ UNCHANGED << isRunning, checkTimer, timers, conns >>
       ELSE /\ timers' = timers \ {checkTimer}
            /\ checkTimer' = 0
            /\ IF connection # 0 /\ conns[connection].status = "open"
                 THEN /\ conns' = [conns EXCEPT ![connection].status = "closing",
                                                ![connection].closer = "stop"]
                      /\ UNCHANGED << isRunning, stopped >>
                 ELSE IF connection = 0
                   THEN /\ isRunning' = FALSE
                        /\ stopped' = TRUE
                        /\ UNCHANGED conns
                   ELSE UNCHANGED << isRunning, stopped, conns >>
  /\ UNCHANGED << cfg, options, declared, connection, channel, currentWorkerCount, startTimeouts, starts,
                  ticks, workers, failures >>
  /\ lastDecision' = NoDecision

\* stop(), called by the owner of the object who makes limit calls at most:
\* nothing to do unless isRunning; else the timer is cleared and the connection
\* closed inside a try/catch.  A close() of an open connection waits for the
\* broker (CloseDone resumes stop()); a close() of a connection that is closing
\* or closed throws at once, is caught, and stop() runs on to isRunning = false.
OwnerStop(limit) ==
  /\ calls < limit
  /\ calls' = calls + 1
  /\ stopFound' = Found
  /\ IF ~isRunning
       THEN /\ stopped' = TRUE
            /\ UNCHANGED << isRunning, checkTimer, timers, conns >>
       ELSE /\ timers' = timers \ {checkTimer}
            /\ checkTimer' = 0
            /\ IF connection # 0 /\ conns[connection].status = "open"
                 THEN /\ conns' = [conns EXCEPT ![connection].status = "closing",
                                                ![connection].closer = "stop"]
                      /\ UNCHANGED << isRunning, stopped >>
                 ELSE /\ isRunning' = FALSE
                      /\ stopped' = TRUE
                      /\ UNCHANGED conns
  /\ UNCHANGED << cfg, options, declared, connection, channel, currentWorkerCount, startTimeouts, starts,
                  ticks, workers, failures >>
  /\ lastDecision' = NoDecision

\* the owner of the object calls stop()
CallStop == OwnerStop(MaxCalls)

----------------------------------------------------------------------------
(* The service with its owner and its broker *)

Next ==
  \/ CallStart
  \/ CallStop
  \/ TimeoutFire
  \/ ConnectOk
  \/ ConnectFail(FALSE)
  \/ ChannelOk
  \/ ChannelFail(FALSE)
  \/ PsDone
  \/ PsFail
  \/ StartScaleRun
  \/ StartScaleOk
  \/ StartScaleFail
  \/ TimerFire(MaxTicks)
  \/ TickReadOk(LifecycleDepths, FALSE)
  \/ TickReadFail
  \/ TickExecRun
  \/ TickExecOk
  \/ TickExecFail
  \/ ConnLost
  \/ CloseDone

Spec == Init /\ [][Next]_vars

----------------------------------------------------------------------------
(* The service started once and left to itself, under a fair event loop:      *)
(* every pending promise settles and every pending timeout expires.  The      *)
(* broker refuses or drops only finitely often: it never drops the last       *)
(* connection it hands out.                                                   *)

NextLive ==
  \/ calls = 0 /\ CallStart
  \/ TimeoutFire
  \/ ConnectOk
  \/ ConnectFail(TRUE)
  \/ ChannelOk
  \/ ChannelFail(TRUE)
  \/ PsDone
  \/ PsFail
  \/ StartScaleRun
  \/ StartScaleOk
  \/ StartScaleFail
  \/ TimerFire(MaxLiveTicks)
  \/ TickReadOk(LifecycleDepths, FALSE)
  \/ TickReadFail
  \/ TickExecRun
  \/ TickExecOk
  \/ TickExecFail
  \/ Len(conns) < MaxConns /\ ConnLost
  \/ CloseDone

Fairness ==
  /\ WF_vars(calls = 0 /\ CallStart)
  /\ WF_vars(TimeoutFire)
  /\ WF_vars(ConnectOk \/ ConnectFail(TRUE))
  /\ WF_vars(ChannelOk \/ ChannelFail(TRUE))
  /\ WF_vars(PsDone \/ PsFail)
  /\ WF_vars(StartScaleRun \/ StartScaleFail)
  /\ WF_vars(StartScaleOk)
  /\ WF_vars(TickReadOk(LifecycleDepths, FALSE) \/ TickReadFail)
  /\ WF_vars(TickExecRun \/ TickExecFail)
  /\ WF_vars(TickExecOk)
  /\ WF_vars(CloseDone)

LiveSpec == Init /\ [][NextLive]_vars /\ Fairness

----------------------------------------------------------------------------
(* The decision of a tick, over configurations that take the constructor's    *)
(* defaults and over backlogs far beyond the thresholds, with ticks that      *)
(* finish within the poll interval: none begins while another is in flight    *)

DecideOptions ==
  { [scaleUpThreshold |-> u, scaleDownThreshold |-> d] : u \in {0, 3}, d \in {0, 5} }
  \cup { [maxWorkers |-> 3, minWorkers |-> 2], [minWorkers |-> 0] }

NextDecide ==
  \/ calls = 0 /\ CallStart
  \/ ConnectOk
  \/ ChannelOk
  \/ PsDone
  \/ StartScaleRun
  \/ StartScaleOk
  \/ StartScaleFail
  \/ ticks = EmptyBag /\ TimerFire(MaxTicks)
  \/ TickReadOk(0..MaxWideDepth, TRUE)
  \/ TickReadFail
  \/ TickExecRun
  \/ TickExecOk
  \/ TickExecFail

InitDecide == InitWith(DecideOptions, BOOLEAN, {0})

SpecDecide == InitDecide /\ [][NextDecide]_vars

----------------------------------------------------------------------------
(* start() and stop() called in any order, two stop() calls after a start()   *)
(* among them, with a broker that refuses, drops and closes                   *)

NextStop ==
  \/ CallStart
  \/ OwnerStop(MaxStopCalls)
  \/ TimeoutFire
  \/ ConnectOk
  \/ ConnectFail(FALSE)
  \/ ChannelOk
  \/ ChannelFail(FALSE)
  \/ PsDone
  \/ PsFail
  \/ StartScaleRun
  \/ StartScaleOk
  \/ StartScaleFail
  \/ ConnLost
  \/ CloseDone

SpecStop == Init /\ [][NextStop]_vars

----------------------------------------------------------------------------
(* The service with its owner and a broker that refuses and drops connections *)
(* and answers no depth read: the timers and the ticks they begin             *)

NextGuard ==
  \/ CallStart
  \/ CallStop
  \/ TimeoutFire
  \/ ConnectOk
  \/ ConnectFail(FALSE)
  \/ ChannelOk
  \/ ChannelFail(FALSE)
  \/ PsDone
  \/ PsFail
  \/ StartScaleRun
  \/ StartScaleOk
  \/ StartScaleFail
  \/ TimerFire(MaxGuardTicks)
  \/ TickReadFail
  \/ ConnLost
  \/ CloseDone

SpecGuard == Init /\ [][NextGuard]_vars

----------------------------------------------------------------------------
(* The service started once on a broker and an executor that never fail,      *)
(* under a fair event loop, with ticks that finish within the poll interval:  *)
(* the controller stays Running and ticks go on for ever                      *)

SteadyOptions ==
  { [scaleUpThreshold |-> 3, scaleDownThreshold |-> 2],
    [scaleUpThreshold |-> 3, scaleDownThreshold |-> 5] }

NextSteady ==
  \/ calls = 0 /\ CallStart
  \/ ConnectOk
  \/ ChannelOk
  \/ PsDone
  \/ StartScaleRun
  \/ StartScaleOk
  \/ ticks = EmptyBag /\ TimerFire(MaxTicks)
  \/ TickReadOk(0..MaxSteadyDepth, TRUE)
  \/ TickExecRun
  \/ TickExecOk

FairSteady ==
  /\ WF_vars(calls = 0 /\ CallStart)
  /\ WF_vars(ConnectOk)
  /\ WF_vars(ChannelOk)
  /\ WF_vars(PsDone)
  /\ WF_vars(StartScaleRun)
  /\ WF_vars(StartScaleOk)
  /\ WF_vars(ticks = EmptyBag /\ TimerFire(MaxTicks))
  /\ WF_vars(TickReadOk(0..MaxSteadyDepth, TRUE))
  /\ WF_vars(TickExecRun)
  /\ WF_vars(TickExecOk)

InitSteady == InitWith(SteadyOptions, BOOLEAN, {0})

SpecSteady == InitSteady /\ [][NextSteady]_vars /\ FairSteady

----------------------------------------------------------------------------
(* Notions the properties share *)

\* no scale command and no query of the worker count is awaited
NoScalingInFlight ==
  /\ \A k \in BagToSet(ticks) : k.pc \notin {"exec", "ran"}
  /\ \A s \in BagToSet(starts) : s.pc \notin {"ps", "scale", "scaled"}

\* no start() is under way or scheduled
NoStartPending ==
  /\ starts = EmptyBag
  /\ startTimeouts = << >>
  /\ \A c \in 1..Len(conns) : conns[c].closer # "catch"

\* the state Running: start() has completed on an open connection and no
\* other start() or stop() is under way
Running ==
  /\ isRunning
  /\ NoStartPending
  /\ connection # 0
  /\ conns[connection].status = "open"

\* this step is the 'close' event of connection c, not asked for by close()
LostStep(c) ==
  /\ c \in 1..Len(conns)
  /\ conns[c].status = "open"
  /\ conns'[c].status = "closed"

\* this step is a tick taking the decision to scale
ScalingDecisionStep ==
  \E k \in BagToSet(ticks) :
    /\ k.pc = "read"
    /\ k.idx = NumQueues
    /\ \/ ticks' = Remove(ticks, k) /\ currentWorkerCount' # currentWorkerCount
       \/ \E k2 \in BagToSet(ticks') :
            /\ k2.pc = "exec"
            /\ ticks' = Replace(ticks, k, k2)

\* this step ends the catch block of a start() attempt
CatchEndStep ==
  \/ \E s \in BagToSet(starts) :
       /\ s.pc \in {"connect", "channel"}
       /\ starts' = Remove(starts, s)
       /\ conns' = conns
       /\ ~isRunning'
  \/ \E c \in 1..Len(conns) :
       /\ conns[c].status = "closing"
       /\ conns[c].closer = "catch"
       /\ conns'[c].status = "closed"

----------------------------------------------------------------------------
(* Properties *)

\* C1: whenever no scaling operation is in flight, currentWorkerCount is
\* within [minWorkers, maxWorkers], in either execution mode and whatever
\* worker count the executor reports.
C1_Clamped ==
  NoScalingInFlight =>
    /\ cfg.minWorkers <= currentWorkerCount
    /\ currentWorkerCount <= cfg.maxWorkers

\* C2: at no time are two executions of checkQueueDepths in flight at once.
C2_SingleTick == BagCardinality(ticks) <= 1

\* C3: after stop() on a Running controller has completed, the controller
\* stays Stopped until the owner calls start() again: isRunning is false, no
\* timer is armed, and no start() is scheduled or under way.
C3_StopFromRunningStays ==
  (stopped /\ stopFound = "running") =>
    /\ ~isRunning
    /\ timers = {}
    /\ NoStartPending

\* C4: after stop() called while the controller is Starting or Reconnecting,
\* isRunning is false, no timer is armed, and the controller does not enter
\* Running until the owner calls start() again.
C4_StopFromStartingStays ==
  (stopped /\ stopFound = "starting") =>
    /\ ~isRunning
    /\ timers = {}

\* C5: a connection-closed event on the active connection of a Running
\* controller clears the poll timer, sets isRunning = false and schedules
\* exactly one start() after the fixed delay; and no tick decides to scale
\* while the controller is not running.
C5_CloseEvent ==
  [][ /\ (Running /\ LostStep(connection)) =>
           /\ timers' = {}
           /\ ~isRunning'
           /\ startTimeouts' = << RetryDelay >>
      /\ ScalingDecisionStep => isRunning
    ]_vars

\* C7: when a start() attempt has failed and its catch block ends, isRunning
\* is false, no poll timer is armed, this.connection is not left open, and
\* exactly one retry of start() has been scheduled, after the fixed delay.
C7_FailedStart ==
  [][ CatchEndStep =>
        /\ ~isRunning'
        /\ timers' = {}
        /\ connection # 0 => conns'[connection].status # "open"
        /\ startTimeouts' = Append(startTimeouts, RetryDelay)
    ]_vars

\* C6: if the connection in use closes while isRunning is true, then under a
\* fair event loop and a broker that accepts connections again, the timer is
\* eventually cleared with isRunning = false, and the controller eventually
\* runs again on a fresh open connection with its timer armed.
C6_ReconnectLiveness ==
  /\ (isRunning /\ connection # 0 /\ conns[connection].status = "closed")
        ~> (~isRunning /\ timers = {})
  /\ (connection # 0 /\ conns[connection].status = "closed")
        ~> (isRunning /\ conns[connection].status = "open" /\ checkTimer \in timers)

\* C8: every retry is scheduled after the same delay; every failed attempt,
\* whatever the number of failures before it, schedules one more; and after
\* any number n of failed attempts the controller reaches Running once an
\* attempt succeeds.
C8_Retries ==
  /\ [](\A i \in 1..Len(startTimeouts) : startTimeouts[i] = RetryDelay)
  /\ [][CatchEndStep => startTimeouts' = Append(startTimeouts, RetryDelay)]_vars
  /\ \A n \in 0..MaxFailures : (failures = n /\ ~isRunning) ~> isRunning

\* the controller is running after MaxFailures failed attempts
C8_Witness ==
  /\ failures = MaxFailures
  /\ isRunning
  /\ conns[connection].status = "open"
  /\ checkTimer \in timers

\* n is the ceiling of a / b, stated without division
IsCeil(n, a, b) == n * b >= a /\ (n - 1) * b < a

\* this step is a tick taking its decision
DecisionStep == lastDecision'.kind \in {"up", "down", "hold"}

\* this step applies a change of the worker count to target: at once without
\* Docker, by a scale command that is now awaited with Docker
AppliesTarget(target) ==
  IF cfg.dockerMode
    THEN /\ currentWorkerCount' = currentWorkerCount
         /\ \E k \in BagToSet(ticks') : k.pc = "exec" /\ k.target = target
    ELSE currentWorkerCount' = target

\* C9: a tick with totalMessages > scaleUpThreshold and currentWorkerCount <
\* maxWorkers scales up by min(maxWorkers - currentWorkerCount,
\* ceil(totalMessages / scaleUpThreshold)), which is at least 1 and at most
\* maxWorkers - currentWorkerCount.
C9_ScaleUp ==
  [][ ( /\ DecisionStep
        /\ lastDecision'.total > cfg.scaleUpThreshold
        /\ currentWorkerCount < cfg.maxWorkers )
      => /\ lastDecision'.kind = "up"
         /\ lastDecision'.count = currentWorkerCount
         /\ \E n \in 1..lastDecision'.total :
              /\ IsCeil(n, lastDecision'.total, cfg.scaleUpThreshold)
              /\ lastDecision'.amount = Min(cfg.maxWorkers - currentWorkerCount, n)
         /\ 1 <= lastDecision'.amount
         /\ lastDecision'.amount <= cfg.maxWorkers - currentWorkerCount
         /\ AppliesTarget(currentWorkerCount + lastDecision'.amount)
    ]_vars

\* Scenario A has happened: thresholds 10, max 5, count 1, backlog 25, three
\* workers added
C9_Witness ==
  /\ cfg.scaleUpThreshold = 10
  /\ cfg.maxWorkers = 5
  /\ ~cfg.dockerMode
  /\ lastDecision.kind = "up"
  /\ lastDecision.total = 25
  /\ lastDecision.count = 1
  /\ lastDecision.amount = 3
  /\ currentWorkerCount = 4

\* C10: a tick where the scale-up rule does not apply, totalMessages <
\* scaleDownThreshold and currentWorkerCount > minWorkers scales down by
\* min(currentWorkerCount - minWorkers, ceil((scaleDownThreshold -
\* totalMessages) / scaleDownThreshold)), which is at least 1 and at most
\* currentWorkerCount - minWorkers.
C10_ScaleDown ==
  [][ ( /\ DecisionStep
        /\ ~(lastDecision'.total > cfg.scaleUpThreshold /\ currentWorkerCount < cfg.maxWorkers)
        /\ lastDecision'.total < cfg.scaleDownThreshold
        /\ currentWorkerCount > cfg.minWorkers )
      => /\ lastDecision'.kind = "down"
         /\ lastDecision'.count = currentWorkerCount
         /\ \E n \in 1..cfg.scaleDownThreshold :
              /\ IsCeil(n, cfg.scaleDownThreshold - lastDecision'.total, cfg.scaleDownThreshold)
              /\ lastDecision'.amount = Min(currentWorkerCount - cfg.minWorkers, n)
         /\ 1 <= lastDecision'.amount
         /\ lastDecision'.amount <= currentWorkerCount - cfg.minWorkers
         /\ AppliesTarget(currentWorkerCount - lastDecision'.amount)
    ]_vars

\* Scenario B has happened: threshold 2, min 1, count 3, backlog 0, one worker
\* removed
C10_Witness ==
  /\ cfg.scaleDownThreshold = 2
  /\ cfg.minWorkers = 1
  /\ ~cfg.dockerMode
  /\ lastDecision.kind = "down"
  /\ lastDecision.total = 0
  /\ lastDecision.count = 3
  /\ lastDecision.amount = 1
  /\ currentWorkerCount = 2

\* the backlog is on one of the thresholds or strictly between them
OnOrBetween(total) ==
  \/ total = cfg.scaleUpThreshold
  \/ total = cfg.scaleDownThreshold
  \/ cfg.scaleDownThreshold < total /\ total < cfg.scaleUpThreshold
  \/ cfg.scaleUpThreshold < total /\ total < cfg.scaleDownThreshold

\* this step awaits no scale command that was not awaited before
NoNewExec ==
  \A k \in BagToSet(ticks') : k.pc = "exec" => CopiesIn(k, ticks') <= CopiesIn(k, ticks)

\* this step is a tick that holds: no scale command, the same worker count
HoldApplied ==
  /\ lastDecision'.kind = "hold"
  /\ currentWorkerCount' = currentWorkerCount
  /\ workers' = workers
  /\ NoNewExec

C12_ReadFailure ==
  /\ [][ lastDecision'.kind = "readfailed" =>
            /\ currentWorkerCount' = currentWorkerCount
            /\ workers' = workers
            /\ NoNewExec
            /\ isRunning' = isRunning
            /\ checkTimer' = checkTimer
            /\ timers' = timers
            /\ channel' = channel
       ]_vars
  /\ [][ (lastDecision.kind = "readfailed" /\ DecisionStep) =>
            lastDecision'.count = lastDecision.count
       ]_vars

\* Scenario D has happened after a read that succeeded: the backlog summed so
\* far called for a scale-up, the next read failed, the service still runs
C12_Witness ==
  /\ lastDecision.kind = "readfailed"
  /\ lastDecision.total > cfg.scaleUpThreshold
  /\ currentWorkerCount < cfg.maxWorkers
  /\ currentWorkerCount = lastDecision.count
  /\ isRunning
  /\ checkTimer \in timers

\* C13: a scale command that fails, up or down, leaves currentWorkerCount as
\* it was, nothing else of the service changes, and the tick after it decides
\* on that unchanged count.
C13_ExecFailure ==
  /\ [][ lastDecision'.kind = "scalefailed" =>
            /\ currentWorkerCount' = currentWorkerCount
            /\ workers' = workers
            /\ isRunning' = isRunning
            /\ checkTimer' = checkTimer
            /\ timers' = timers
       ]_vars
  /\ [][ (lastDecision.kind = "scalefailed" /\ DecisionStep) =>
            lastDecision'.count = lastDecision.count
       ]_vars

\* the scale command of a tick has failed: the count is within its bounds
\* (the count a failed ensureMinimumWorkers leaves is below them)
C13_Witness ==
  /\ cfg.dockerMode
  /\ lastDecision.kind = "scalefailed"
  /\ currentWorkerCount = lastDecision.count
  /\ cfg.minWorkers <= currentWorkerCount
  /\ currentWorkerCount < cfg.maxWorkers
  /\ isRunning

\* C14: no tick reads queue depths on the channel of a start() whose
\* ensureMinimumWorkers has not finished, and when a tick of that run reads or
\* decides, currentWorkerCount is at least minWorkers.
C14_MinimumBeforeTick ==
  \A k \in BagToSet(ticks) :
    /\ \A s \in BagToSet(starts) : s.pc \in {"ps", "scale", "scaled"} => k.chan # s.conn
    /\ k.chan = channel => currentWorkerCount >= cfg.minWorkers

\* the zero of an option is one of the thresholds
ZeroThreshold(o) ==
  \/ "scaleUpThreshold" \in DOMAIN o /\ o.scaleUpThreshold = 0
  \/ "scaleDownThreshold" \in DOMAIN o /\ o.scaleDownThreshold = 0

\* C15: a controller constructed with scaleUpThreshold = 0 or
\* scaleDownThreshold = 0 is refused: it never starts, connects or ticks.
C15_ZeroRefused ==
  ZeroThreshold(options) =>
    /\ ~isRunning
    /\ starts = EmptyBag
    /\ conns = << >>
    /\ ticks = EmptyBag

\* C16: with minWorkers = 0 in the options the lower bound in use is 0 and
\* currentWorkerCount starts at 0.
C16_ZeroMinimum ==
  ("minWorkers" \in DOMAIN options /\ options.minWorkers = 0) =>
    /\ cfg.minWorkers = 0
    /\ calls = 0 => currentWorkerCount = 0

\* C17: with dockerMode false no docker-compose command is ever run or
\* awaited, by start() or by a tick, and the workers the executor runs stay
\* what they were: the count changes in currentWorkerCount only.
C17_SimulatedInMemory ==
  ~cfg.dockerMode =>
    /\ NoScalingInFlight
    /\ workers = 0

\* without Docker a tick has scaled up: currentWorkerCount has grown and the
\* executor runs no worker
C17_Witness ==
  /\ ~cfg.dockerMode
  /\ lastDecision.kind = "up"
  /\ currentWorkerCount = lastDecision.count + lastDecision.amount
  /\ currentWorkerCount > cfg.minWorkers
  /\ workers = 0

\* this step is the owner calling stop()
StopCallStep == calls' = calls + 1 /\ stopFound' # "none"

\* C18: whatever state stop() is called in (Stopped, Starting, Running,
\* Reconnecting, another stop() under way, the connection already closed), it
\* either completes at once with isRunning = false or awaits the close() of
\* the open connection and completes with isRunning = false when that settles.
C18_StopSafe ==
  /\ [][ StopCallStep =>
            \/ stopped' /\ ~isRunning'
            \/ /\ isRunning
               /\ connection # 0
               /\ conns[connection].status = "open"
               /\ conns'[connection].status = "closing"
               /\ conns'[connection].closer = "stop"
       ]_vars
  /\ [][ \A c \in 1..Len(conns) :
            (conns[c].closer = "stop" /\ conns'[c].status = "closed") =>
              /\ ~isRunning'
              /\ stopFound # "none" => stopped'
       ]_vars

\* a second stop() was called while the first awaits its close(): the close()
\* of the second was refused and the second has completed
C18_Witness ==
  /\ stopFound = "running"
  /\ stopped
  /\ ~isRunning
  /\ connection # 0
  /\ conns[connection].status = "closing"
  /\ conns[connection].closer = "stop"

\* both rules apply: the backlog is above scaleUpThreshold and below
\* scaleDownThreshold, the count strictly between the bounds
BothRulesApply(total) ==
  /\ cfg.scaleUpThreshold < total
  /\ total < cfg.scaleDownThreshold
  /\ cfg.minWorkers < currentWorkerCount
  /\ currentWorkerCount < cfg.maxWorkers

\* C19: a tick where both rules apply (misordered thresholds) scales up, by
\* the amount of the scale-up rule, never down.
C19_UpFirst ==
  [][ (DecisionStep /\ BothRulesApply(lastDecision'.total)) =>
        /\ lastDecision'.kind = "up"
        /\ lastDecision'.amount >= 1
        /\ AppliesTarget(currentWorkerCount + lastDecision'.amount)
    ]_vars

\* a tick has scaled up where the scale-down rule applied as well
C19_Witness ==
  /\ lastDecision.kind = "up"
  /\ cfg.scaleUpThreshold < lastDecision.total
  /\ lastDecision.total < cfg.scaleDownThreshold
  /\ cfg.minWorkers < lastDecision.count
  /\ lastDecision.count < cfg.maxWorkers
  /\ ~cfg.dockerMode
  /\ currentWorkerCount = lastDecision.count + lastDecision.amount

\* C20: once isRunning is set or a poll timer is armed, start() has declared
\* every watched queue at the broker.
C20_QueuesDeclared ==
  (isRunning \/ timers # {}) => declared = 1..NumQueues

\* this step is the last read of the tick k: k ends, or awaits a scale command
LastReadOf(k) ==
  /\ k.pc = "read"
  /\ k.idx = NumQueues
  /\ \/ ticks' = Remove(ticks, k)
     \/ \E k2 \in BagToSet(ticks') : k2.pc = "exec" /\ ticks' = Replace(ticks, k, k2)

\* C22: the backlog a tick decides on is the sum of the message counts of
\* all watched queues: what the earlier reads of the tick had summed plus the
\* count of the last read; and a sum above scaleUpThreshold scales up.
C22_Sum ==
  [][ DecisionStep =>
        /\ \E k \in BagToSet(ticks) :
             /\ LastReadOf(k)
             /\ lastDecision'.total - k.total \in 0..MaxWideDepth
        /\ (lastDecision'.total > cfg.scaleUpThreshold /\ currentWorkerCount < cfg.maxWorkers)
             => lastDecision'.kind = "up"
    ]_vars

\* two queues, each at or below scaleUpThreshold and neither empty, whose sum
\* is above it, have made a tick scale up
C22_Witness ==
  /\ cfg.dockerMode
  /\ lastDecision.kind = "up"
  /\ lastDecision.total > cfg.scaleUpThreshold
  /\ \E k \in BagToSet(ticks) :
       /\ k.pc = "exec"
       /\ k.total >= 1
       /\ k.total <= cfg.scaleUpThreshold
       /\ lastDecision.total - k.total >= 1
       /\ lastDecision.total - k.total <= cfg.scaleUpThreshold

\* this step begins no tick: no checkQueueDepths() goes on to its first read
NoNewTick ==
  \A k \in BagToSet(ticks') :
    (k.pc = "read" /\ k.idx = 1) => CopiesIn(k, ticks') <= CopiesIn(k, ticks)

\* C23: while isRunning is false no tick begins, and a timer that fires then
\* leaves the whole state of the service as it was: no read, no decision, no
\* scale operation.
C23_NoTickUnlessRunning ==
  /\ [][ ~isRunning => NoNewTick ]_vars
  /\ [][ lastDecision'.kind = "skipped" =>
            /\ ~isRunning \/ channel = 0
            /\ UNCHANGED << cfg, declared, isRunning, checkTimer, connection, channel,
                            currentWorkerCount, conns, timers, startTimeouts, starts,
                            ticks, workers >>
       ]_vars

\* a timer that is still armed has fired while isRunning was false, with a
\* channel at hand, and its checkQueueDepths() returned at once
C23_Witness ==
  /\ lastDecision.kind = "skipped"
  /\ ~isRunning
  /\ channel # 0
  /\ timers # {}
  /\ ticks = EmptyBag

\* C24: every interval timer that is armed is the one whose handle checkTimer
\* holds: there is at most one, and none that clearInterval(this.checkTimer)
\* cannot reach.
C24_OneTimer ==
  /\ Cardinality(timers) <= 1
  /\ \A t \in timers : t = checkTimer

\* C25: at most one broker connection is open, and at most one start() is in
\* flight or scheduled.
C25_OneStart ==
  /\ Cardinality({c \in 1..Len(conns) : conns[c].status = "open"}) <= 1
  /\ BagCardinality(starts) + Len(startTimeouts) <= 1

\* C29: a tick that scales down removes exactly one worker, however far the
\* count is above minWorkers and however far the backlog is below
\* scaleDownThreshold.
C29_DownByOne ==
  [][ (DecisionStep /\ lastDecision'.kind = "down") =>
        /\ lastDecision'.amount = 1
        /\ AppliesTarget(currentWorkerCount - 1)
    ]_vars

\* a tick has scaled down from two or more workers above the minimum on an
\* empty backlog, with scaleDownThreshold 5: one worker is gone
C29_Witness ==
  /\ ~cfg.dockerMode
  /\ cfg.scaleDownThreshold = 5
  /\ lastDecision.kind = "down"
  /\ lastDecision.total = 0
  /\ lastDecision.count >= cfg.minWorkers + 2
  /\ currentWorkerCount = lastDecision.count - 1

\* C30: without Docker, from the 'close' event of the connection in use until
\* the controller runs again currentWorkerCount does not change: not by the
\* event, not by a failed start(), not by the start() that succeeds.
C30_CountKept ==
  [][ ( /\ ~cfg.dockerMode
        /\ \/ ~isRunning
           \/ LostStep(connection) )
      => currentWorkerCount' = currentWorkerCount ]_vars

\* C26: with Docker, once the controller runs and neither a scale command nor
\* the query of ensureMinimumWorkers is in flight, currentWorkerCount is the
\* number of workers the executor runs.
C26_CountIsActual ==
  (cfg.dockerMode /\ isRunning /\ NoScalingInFlight) => currentWorkerCount = workers

\* the last step was a tick taking its decision
Decided == lastDecision.kind \in {"up", "down", "hold"}

\* every tick observes a backlog above scaleUpThreshold
AlwaysAbove == [](Decided => lastDecision.total > cfg.scaleUpThreshold)

\* every tick observes a backlog below scaleDownThreshold
AlwaysBelow == [](Decided => lastDecision.total < cfg.scaleDownThreshold)

\* C27 as stated: without Docker, if every tick observes totalMessages >
\* scaleUpThreshold, currentWorkerCount eventually is maxWorkers for good; if
\* every tick observes totalMessages < scaleDownThreshold, it eventually is
\* minWorkers for good.
C27_Converges ==
  /\ (~cfg.dockerMode /\ AlwaysAbove) => <>[](currentWorkerCount = cfg.maxWorkers)
  /\ (~cfg.dockerMode /\ AlwaysBelow) => <>[](currentWorkerCount = cfg.minWorkers)

\* C27 amended: the same with scaleDownThreshold <= scaleUpThreshold.
C27_ConvergesOrdered ==
  /\ (~cfg.dockerMode /\ cfg.scaleDownThreshold <= cfg.scaleUpThreshold /\ AlwaysAbove)
        => <>[](currentWorkerCount = cfg.maxWorkers)
  /\ (~cfg.dockerMode /\ cfg.scaleDownThreshold <= cfg.scaleUpThreshold /\ AlwaysBelow)
        => <>[](currentWorkerCount = cfg.minWorkers)

\* without Docker and with ordered thresholds the count has reached
\* maxWorkers and a tick with a backlog above scaleUpThreshold holds it there
C27_Witness ==
  /\ ~cfg.dockerMode
  /\ cfg.scaleDownThreshold <= cfg.scaleUpThreshold
  /\ lastDecision.kind = "hold"
  /\ lastDecision.total > cfg.scaleUpThreshold
  /\ currentWorkerCount = cfg.maxWorkers
  /\ currentWorkerCount > cfg.minWorkers

\* C28: with scaleDownThreshold <= scaleUpThreshold and the same totalMessages
\* on every tick, the ticks never scale both up and down, and from some tick
\* on they only hold.
C28_NoOscillation ==
  \A total \in 0..(NumQueues * MaxSteadyDepth) :
    ( /\ cfg.scaleDownThreshold <= cfg.scaleUpThreshold
      /\ [](Decided => lastDecision.total = total) )
    => /\ \/ [](Decided => lastDecision.kind # "down")
          \/ [](Decided => lastDecision.kind # "up")
       /\ <>[](Decided => lastDecision.kind = "hold")

\* with Docker and ordered thresholds the ticks have scaled the workers up to
\* maxWorkers, and a tick on the largest backlog holds the count there
C28_Witness ==
  /\ cfg.scaleDownThreshold <= cfg.scaleUpThreshold
  /\ lastDecision.kind = "hold"
  /\ lastDecision.total = NumQueues * MaxSteadyDepth
  /\ lastDecision.total > cfg.scaleUpThreshold
  /\ lastDecision.count = cfg.maxWorkers
  /\ cfg.dockerMode
  /\ workers = cfg.maxWorkers

====
